---- MODULE Spec2Model ----
(***************************************************************************)
(* A model of CodeFlatener.py: the rotating OutputFile, the glob matcher   *)
(* and the include/exclude filter, and SourceCodeFlatener's run            *)
(* (construction, structure pass, content pass, summary, cleanup).         *)
(*                                                                         *)
(* Text is modelled as tuples of one-character strings, so that the        *)
(* string operations of the source (split, replace, splitext, basename)    *)
(* are computed character by character. An output line is a record         *)
(* [t, n, p]: what the line is, its size in bytes with its newline, and    *)
(* the relative path it is about (<<>> when it is about none).             *)
(***************************************************************************)
EXTENDS Integers, Sequences, FiniteSets, TLC

VARIABLES
    pc,        \* where the run (or the object under test) stands
    args,      \* the parsed command line of main()
    env,       \* the world outside: the tree, the clone's outcome, the listing order
    of,        \* the OutputFile object's fields
    disk,      \* the output directory: path -> the lines of the file
    stats,     \* file_count, dir_count, total_bytes
    temp,      \* temp_repo_path and whether the directory exists
    todo,      \* the files os.walk has still to yield
    err,       \* the exception that ended the run, "" when none
    hist,      \* history of the OutputFile: rotations and the size of each closed part
    call,      \* the arguments and the result of the last matcher call
    steps      \* the number of write calls made on the OutputFile under test

vars == <<pc, args, env, of, disk, stats, temp, todo, err, hist, call, steps>>

----------------------------------------------------------------------------
(* Bounds of the model                                                     *)

MaxWrites == 3
MaxPatLen == 3
MaxPathLen == 3
MaxPatterns == 2
MaxFiles == 2

----------------------------------------------------------------------------
(* Text                                                                    *)

Rep(c, n) == [i \in 1..n |-> c]

RECURSIVE SumLen(_)
SumLen(lines) ==
    IF lines = <<>> THEN 0 ELSE Head(lines).n + SumLen(Tail(lines))

\* the last index of c in s, 0 when there is none (str.rfind, 1-based)
RFind(s, c) ==
    LET hits == {i \in 1..Len(s) : s[i] = c}
    IN  IF hits = {} THEN 0 ELSE CHOOSE i \in hits : \A j \in hits : j <= i

\* the first index of c in s, 0 when there is none
Find(s, c) ==
    LET hits == {i \in 1..Len(s) : s[i] = c}
    IN  IF hits = {} THEN 0 ELSE CHOOSE i \in hits : \A j \in hits : i <= j

Digit(d) ==
    CASE d = 0 -> "0" [] d = 1 -> "1" [] d = 2 -> "2" [] d = 3 -> "3"
      [] d = 4 -> "4" [] d = 5 -> "5" [] d = 6 -> "6" [] d = 7 -> "7"
      [] d = 8 -> "8" [] d = 9 -> "9"

\* str(n) of a natural number
RECURSIVE Str(_)
Str(n) == IF n < 10 THEN <<Digit(n)>> ELSE Str(n \div 10) \o <<Digit(n % 10)>>

\* str.split('\n'): always at least one piece
RECURSIVE split(_)
split(block) ==
    LET i == Find(block, "\n")
    IN  IF i = 0 THEN <<block>>
        ELSE <<SubSeq(block, 1, i - 1)>> \o split(SubSeq(block, i + 1, Len(block)))

basename(path) == SubSeq(path, RFind(path, "/") + 1, Len(path))

dirname(path) ==
    LET i == RFind(path, "/") IN IF i = 0 THEN <<>> ELSE SubSeq(path, 1, i - 1)

join(dir, name) == IF dir = <<>> THEN name ELSE dir \o <<"/">> \o name

\* pathlib's suffix of a final component: from its last dot, unless that dot
\* leads or ends the name
suffix(name) ==
    LET i == RFind(name, ".")
    IN  IF 1 < i /\ i < Len(name) THEN SubSeq(name, i, Len(name)) ELSE <<>>

stem(name) ==
    LET i == RFind(name, ".")
    IN  IF 1 < i /\ i < Len(name) THEN SubSeq(name, 1, i - 1) ELSE name

Line(t, n, p) == [t |-> t, n |-> n, p |-> p]

NoPath == <<>>

----------------------------------------------------------------------------
(* class OutputFile                                                        *)

NoObject == [part |-> 0]

getsize(d, path) == SumLen(d[path])

\* the two writes of a header: the title line, then the timestamp line and
\* a blank line; ts is the length of str(datetime.datetime.now())
Header(tag, title, project_name, ts) ==
    << Line(tag, Len(title) + Len(project_name) + 1, NoPath),
       Line("generated", Len("Generated on: ") + ts + 1, NoPath),
       Line("blank", 1, NoPath) >>

OutputFile_init(output_path, max_size, project_name, ts) ==
    LET name == IF project_name = "" THEN "Unnamed Project" ELSE project_name
        o == [ base_path    |-> output_path,
               max_size     |-> max_size,
               project_name |-> name,
               part         |-> 1,
               base_name    |-> stem(basename(output_path)),
               extension    |-> suffix(basename(output_path)),
               directory    |-> dirname(output_path),
               current_path |-> output_path ]
    IN  [ of   |-> o,
          disk |-> (output_path :> Header("title", "# Project Digest: ", name, ts)),
          hist |-> [rotations |-> 0, closed |-> <<>>] ]

\* a slip: the part number before its increment names the new part
new_path_stale(o, part) ==
    join(o.directory, o.base_name \o <<"_", "p", "a", "r", "t">> \o Str(o.part) \o o.extension)

new_path(o, part) ==
    join(o.directory, o.base_name \o <<"_", "p", "a", "r", "t">> \o Str(part) \o o.extension)

exceeds(size, max_size) == size > max_size

check_and_rotate(st, ts) ==
    IF st.of.current_path \notin DOMAIN st.disk THEN st
    ELSE IF exceeds(getsize(st.disk, st.of.current_path), st.of.max_size)
    THEN LET part == st.of.part + 1
             path == new_path(st.of, part)
         IN  [ of   |-> [st.of EXCEPT !.part = part, !.current_path = path],
               disk |-> [p \in DOMAIN st.disk \cup {path} |->
                           IF p = path
                           THEN Header("continued", "# Project Digest Continued: ",
                                       st.of.project_name, ts)
                           ELSE st.disk[p]],
               hist |-> [ rotations |-> st.hist.rotations + 1,
                          closed |-> Append(st.hist.closed,
                                            getsize(st.disk, st.of.current_path)) ] ]
    ELSE st

\* open(current_path, 'a') creates the file when it is missing
append(d, path, line) ==
    [p \in DOMAIN d \cup {path} |->
        IF p = path
        THEN (IF path \in DOMAIN d THEN d[path] ELSE <<>>) \o <<line>>
        ELSE d[p]]

write_line(st, line, ts) ==
    check_and_rotate([st EXCEPT !.disk = append(st.disk, st.of.current_path, line)], ts)

RECURSIVE write_lines(_, _, _)
write_lines(st, lines, ts) ==
    IF lines = <<>> THEN st
    ELSE write_lines(write_line(st, Head(lines), ts), Tail(lines), ts)

\* a slip: the block is appended whole and the size is checked once, after it
write_block_whole(st, block, p, ts) ==
    LET lines == [i \in 1..Len(split(block)) |->
                     Line("content", Len(split(block)[i]) + 1, p)]
        d == [q \in DOMAIN st.disk |->
                IF q = st.of.current_path
                THEN st.disk[q] \o SubSeq(lines, 1, Len(lines) - 1)
                ELSE st.disk[q]]
    IN  write_line([st EXCEPT !.disk = d], lines[Len(lines)], ts)

\* write_block(block): one write_line per piece of block.split('\n')
write_block(st, block, p, ts) ==
    write_lines(st, [i \in 1..Len(split(block)) |->
                        Line("content", Len(split(block)[i]) + 1, p)], ts)

get_path(o) == o.current_path

----------------------------------------------------------------------------
(* The matcher: _glob_match and _should_ignore                             *)

DEFAULT_EXCLUDE_PATTERNS ==
    << <<"b", "i", "n", "/", "*">>,
       <<"o", "b", "j", "/", "*">>,
       <<"d", "e", "b", "u", "g", "/", "*">>,
       <<"r", "e", "l", "e", "a", "s", "e", "/", "*">>,
       <<"n", "o", "d", "e", "_", "m", "o", "d", "u", "l", "e", "s", "/", "*">>,
       <<"*", ".", "d", "l", "l">>, <<"*", ".", "e", "x", "e">>,
       <<"*", ".", "p", "d", "b">>, <<"*", ".", "c", "a", "c", "h", "e">> >>

\* str.replace(old, new) for a one-character old
RECURSIVE replace(_, _, _)
replace(s, old, new) ==
    IF s = <<>> THEN <<>>
    ELSE (IF Head(s) = old THEN new ELSE <<Head(s)>>) \o replace(Tail(s), old, new)

\* "^" + pattern.replace(".", "\\.").replace("*", ".*") + "$"
regex_pattern(pattern) ==
    <<"^">> \o replace(replace(pattern, ".", <<"\\", ".">>), "*", <<".", "*">>) \o <<"$">>

\* The regular expressions regex_pattern builds from patterns over letters,
\* "/", ".", "*" and "|" (and text without line breaks): whether r from its
\* index k on matches s from its index i on, up to some end. "^" holds at
\* the start, "$" at the end, a backslash makes the next character literal,
\* ".*" is any run, "." any character, and "|" ends an alternative, which
\* has then matched.
RECURSIVE re_from(_, _, _, _)
re_from(r, k, s, i) ==
    IF k > Len(r) THEN TRUE
    ELSE IF r[k] = "|" THEN TRUE
    ELSE IF r[k] = "^" THEN i = 1 /\ re_from(r, k + 1, s, i)
    ELSE IF r[k] = "$" THEN i = Len(s) + 1 /\ re_from(r, k + 1, s, i)
    ELSE IF r[k] = "\\"
         THEN i <= Len(s) /\ s[i] = r[k + 1] /\ re_from(r, k + 2, s, i + 1)
    ELSE IF r[k] = "." /\ k < Len(r) /\ r[k + 1] = "*"
         THEN \E j \in i..(Len(s) + 1) : re_from(r, k + 2, s, j)
    ELSE IF r[k] = "." THEN i <= Len(s) /\ re_from(r, k + 1, s, i + 1)
    ELSE i <= Len(s) /\ s[i] = r[k] /\ re_from(r, k + 1, s, i + 1)

\* re.match(r, s): some alternative of r matches s from its start
re_match(r, s) ==
    \E k \in 1..Len(r) :
        /\ (k = 1 \/ r[k - 1] = "|")
        /\ re_from(r, k, s, 1)

glob_match(path, pattern) == re_match(regex_pattern(pattern), path)

\* the loops of _should_ignore: the first pattern that matches ends the loop
RECURSIVE match_found(_, _)
match_found(patterns, rel_path) ==
    IF patterns = <<>> THEN FALSE
    ELSE IF glob_match(rel_path, Head(patterns)) THEN TRUE
    ELSE match_found(Tail(patterns), rel_path)

\* a slip: a path an include pattern matches is kept without a look at the
\* exclude patterns
should_ignore_include_wins(include_patterns, exclude_patterns, rel_path) ==
    IF include_patterns # <<>>
    THEN ~match_found(include_patterns, rel_path)
    ELSE match_found(exclude_patterns, rel_path)

should_ignore(include_patterns, exclude_patterns, rel_path) ==
    IF include_patterns # <<>> /\ ~match_found(include_patterns, rel_path) THEN TRUE
    ELSE IF match_found(exclude_patterns, rel_path) THEN TRUE
    ELSE FALSE

\* self.include_patterns and self.exclude_patterns, from the arguments
include_of(a) == IF a.include_patterns = <<>> THEN <<>> ELSE a.include_patterns
exclude_of(a) ==
    IF a.exclude_patterns = <<>> THEN DEFAULT_EXCLUDE_PATTERNS ELSE a.exclude_patterns

----------------------------------------------------------------------------
(* The file system under the project directory                             *)

SUPPORTED_FILE_EXTENSIONS ==
    { <<"p", "s", "1">>, <<"c", "s">>, <<"s", "l", "n">>, <<"m", "d">>, <<"t", "x", "t">>, <<"j", "s", "o", "n">>,
      <<"x", "m", "l">>, <<"y", "a", "m", "l">>, <<"y", "m", "l">>, <<"p", "y">>, <<"j", "s">> }

\* The files a project may hold: the relative path, the size on disk, the
\* text a read of the file returns (newlines translated; for an .md file,
\* after _strip_markdown), and what the file system answers: "ok",
\* "unreadable" (open raises), "nostat" (os.path.getsize raises: a dangling
\* link).
Universe ==
    << [path |-> <<"a", ".", "p", "y">>, size |-> 10, text |-> Rep("x", 3) \o <<"\n">> \o Rep("x", 5),
        status |-> "ok"],
       [path |-> <<"s", "r", "c", "/", "c", ".", "p", "y">>, size |-> 12, text |-> Rep("x", 12),
        status |-> "ok"],
       [path |-> <<"b", "i", "g", ".", "j", "s">>, size |-> 20, text |-> Rep("x", 20),
        status |-> "ok"],
       [path |-> <<"b", "a", "d", ".", "t", "x", "t">>, size |-> 7, text |-> Rep("x", 7),
        status |-> "unreadable"],
       [path |-> <<"g", "o", "n", "e", ".", "p", "y">>, size |-> 8, text |-> Rep("x", 8),
        status |-> "nostat"],
       [path |-> <<"b", ".", "d", "l", "l">>, size |-> 6, text |-> Rep("x", 6),
        status |-> "ok"],
       [path |-> <<".", "g", "i", "t", "/", "h", ".", "p", "y">>, size |-> 5, text |-> Rep("x", 5),
        status |-> "ok"],
       [path |-> <<".", "e", ".", "p", "y">>, size |-> 4, text |-> Rep("x", 4),
        status |-> "ok"],
       [path |-> <<"s", "u", "b", "/", "o", "u", "t", ".", "m", "d">>, size |-> 3, text |-> Rep("x", 3),
        status |-> "ok"] >>

FileAt(path) == CHOOSE i \in 1..Len(Universe) : Universe[i].path = path

\* path lies below directory d (<<>> is the project directory itself)
IsUnder(d, path) ==
    \/ d = <<>>
    \/ /\ Len(path) > Len(d) + 1
       /\ SubSeq(path, 1, Len(d)) = d
       /\ path[Len(d) + 1] = "/"

ChildName(d, path) ==
    LET r == IF d = <<>> THEN path ELSE SubSeq(path, Len(d) + 2, Len(path))
        i == Find(r, "/")
    IN  IF i = 0 THEN r ELSE SubSeq(r, 1, i - 1)

isdir(e, path) == \E i \in e.tree : IsUnder(path, Universe[i].path) /\ path # <<>>

\* the place of an entry of d in the directory's listing
ListKey(e, d, name) ==
    LET first == CHOOSE i \in e.tree :
                    /\ IsUnder(d, Universe[i].path) /\ ChildName(d, Universe[i].path) = name
                    /\ \A j \in e.tree :
                          IsUnder(d, Universe[j].path) /\ ChildName(d, Universe[j].path) = name
                             => i <= j
    IN  IF e.order = "forward" THEN first ELSE 0 - first

RECURSIVE InListingOrder(_, _, _)
InListingOrder(e, d, names) ==
    IF names = {} THEN <<>>
    ELSE LET n == CHOOSE x \in names :
                     \A y \in names : ListKey(e, d, x) <= ListKey(e, d, y)
         IN  <<n>> \o InListingOrder(e, d, names \ {n})

\* os.listdir(d): the entries of d, in the order the file system gives them
listdir(e, d) ==
    InListingOrder(e, d, {ChildName(d, Universe[i].path) :
                             i \in {j \in e.tree : IsUnder(d, Universe[j].path)}})

\* os.walk(project_dir), flattened to the files it yields: a directory's own
\* files in listing order, then each of its subdirectories in turn
RECURSIVE walk(_, _)
RECURSIVE walk_dirs(_, _, _)
walk(e, d) ==
    LET items == listdir(e, d)
        files == SelectSeq(items, LAMBDA n : ~isdir(e, join(d, n)))
        dirs  == SelectSeq(items, LAMBDA n : isdir(e, join(d, n)))
    IN  [i \in 1..Len(files) |-> join(d, files[i])] \o walk_dirs(e, d, dirs)
walk_dirs(e, d, dirs) ==
    IF dirs = <<>> THEN <<>>
    ELSE walk(e, join(d, Head(dirs))) \o walk_dirs(e, d, Tail(dirs))

UpperCase == <<"A", "B", "C", "D", "E", "F", "G", "H", "I", "J", "K", "L", "M", "N", "O", "P", "Q", "R", "S", "T", "U", "V", "W", "X", "Y", "Z">>
LowerCase == <<"a", "b", "c", "d", "e", "f", "g", "h", "i", "j", "k", "l", "m", "n", "o", "p", "q", "r", "s", "t", "u", "v", "w", "x", "y", "z">>

lower(s) ==
    [i \in 1..Len(s) |->
        IF \E k \in 1..Len(UpperCase) : UpperCase[k] = s[i]
        THEN LowerCase[CHOOSE k \in 1..Len(UpperCase) : UpperCase[k] = s[i]]
        ELSE s[i]]

\* os.path.splitext(p)[1][1:]: what follows the last dot of the final
\* component, when a character other than a dot precedes that dot in it
splitext_ext(p) ==
    LET b == basename(p)
        i == RFind(b, ".")
    IN  IF i > 0 /\ \E k \in 1..(i - 1) : b[k] # "."
        THEN SubSeq(b, i + 1, Len(b)) ELSE <<>>

supported(name) == lower(splitext_ext(name)) \in SUPPORTED_FILE_EXTENSIONS

startswith_dot(name) == name # <<>> /\ name[1] = "."

----------------------------------------------------------------------------
(* class SourceCodeFlatener                                                *)

DEFAULT_MAX_FILE_SIZE == 10 * 1024 * 1024
DEFAULT_MAX_OUTPUT_SIZE == 5 * 1024 * 1024

cwd == <<"/", "w">>

abspath(p) == IF p # <<>> /\ p[1] = "/" THEN p ELSE join(cwd, p)

startswith(s, prefix) == Len(s) >= Len(prefix) /\ SubSeq(s, 1, Len(prefix)) = prefix

is_url(source) ==
    startswith(source, <<"h", "t", "t", "p", ":", "/", "/">>) \/ startswith(source, <<"h", "t", "t", "p", "s", ":", "/", "/">>)

\* self.project_dir: the clone when there is one, else the source directory
project_dir(a, t) == IF t.path # <<>> THEN t.path ELSE abspath(a.source)

\* _process_directory(directory, indent): the lines it writes, in order. The
\* indent of a directory at depth k has 2k blanks.
RECURSIVE process_directory(_, _, _, _)
RECURSIVE process_items(_, _, _, _, _)
process_directory(a, e, directory, depth) ==
    << IF directory = <<>>
       THEN Line("DIR", Len("[DIR] .") + 1, directory)
       ELSE Line("DIR", 2 * depth + Len("[DIR] ") + Len(basename(directory)) + 1,
                 directory) >>
    \o process_items(a, e, directory, depth, listdir(e, directory))
process_items(a, e, directory, depth, items) ==
    IF items = <<>> THEN <<>>
    ELSE LET item == Head(items)
             item_rel == join(directory, item)
         IN  (IF startswith_dot(item) THEN <<>>
              ELSE IF basename(item_rel) = basename(a.output) THEN <<>>
              ELSE IF should_ignore(include_of(a), exclude_of(a), item_rel) THEN <<>>
              ELSE IF isdir(e, item_rel)
                   THEN process_directory(a, e, item_rel, depth + 1)
              ELSE IF supported(item)
                   THEN <<Line("FILE", 2 * depth + Len("  [FILE] ") + Len(item) + 1,
                               item_rel)>>
              ELSE <<>>)
             \o process_items(a, e, directory, depth, Tail(items))

\* a slip: a file as large as the cap is taken for too large
too_large_at_cap(size, max_file_size) == size >= max_file_size

too_large(size, max_file_size) == size > max_file_size

ErrorText == "[Errno 13] Permission denied"

\* _process_file_contents(filepath) on r = [out, stats, err]; err is the
\* exception that leaves the method, "" when it returns
process_file_contents(a, r, rel_path, ts) ==
    LET f == Universe[FileAt(rel_path)]
        blank == Line("blank", 1, NoPath)
        heading == Line("heading", Len("## ") + Len(rel_path) + 1, rel_path)
    IN  IF ~supported(rel_path) THEN r
        ELSE IF f.status = "nostat" THEN [r EXCEPT !.err = "OSError"]
        ELSE IF too_large(f.size, a.max_file_size)
        THEN [r EXCEPT !.out =
                write_lines(r.out,
                            << blank, heading,
                               Line("too_large", Len("[File too large to process]") + 1,
                                    rel_path) >>, ts)]
        ELSE LET out == write_lines(r.out, <<blank, heading>>, ts)
             IN  IF f.status = "unreadable"
                 THEN [r EXCEPT !.out =
                         write_line(out,
                                    Line("error",
                                         Len("[Error reading file: ]") + Len(ErrorText) + 1,
                                         rel_path), ts)]
                 ELSE [r EXCEPT
                         !.out = write_block(out, f.text, rel_path, ts),
                         !.stats = [@ EXCEPT !.file_count = @ + 1,
                                             !.total_bytes = @ + f.size]]

\* the body of the loop over os.walk's files in process()
process_walked_file(a, r, rel_path, ts) ==
    IF startswith_dot(basename(rel_path)) THEN r
    ELSE IF basename(rel_path) = basename(a.output) THEN r
    ELSE IF should_ignore(include_of(a), exclude_of(a), rel_path) THEN r
    ELSE IF supported(basename(rel_path)) THEN process_file_contents(a, r, rel_path, ts)
    ELSE r

\* _generate_summary(): its six lines; a line with a number carries the
\* number as the code prints it
generate_summary(s) ==
    << Line("summary", Len("Repository Summary:") + 1, NoPath),
       Line("files", Len("Files analyzed: ") + Len(Str(s.file_count)) + 1,
            Str(s.file_count)),
       Line("dirs", Len("Directories scanned: ") + Len(Str(s.dir_count)) + 1,
            Str(s.dir_count)),
       Line("bytes", Len("Total size: ") + Len(Str(s.total_bytes)) + Len(" bytes") + 1,
            Str(s.total_bytes)),
       Line("tokens", Len("Estimated tokens: ") + Len(Str(s.total_bytes \div 4)) + 1,
            Str(s.total_bytes \div 4)),
       Line("blank", 1, NoPath) >>

\* the rewrite at the end of process(): the summary, then what the file at
\* get_path() held, moved over the file at get_path()
prepend_summary(o, d, summary) ==
    [d EXCEPT ![get_path(o)] = summary \o @]

----------------------------------------------------------------------------
(* The OutputFile on its own: any construction, then any write calls       *)

NoArgs == [source |-> "none"]
NoEnv == [tree |-> {}]
NoStats == [file_count |-> 0, dir_count |-> 0, total_bytes |-> 0]
NoTemp == [path |-> <<>>, exists |-> FALSE]
NoCall == [op |-> "none"]
NoHist == [rotations |-> 0, closed |-> <<>>]

OutputPaths ==
    { <<"o", "u", "t", ".", "m", "d">>,
      <<"d", "/", "o", ".", "t", "a", "r", ".", "g", "z">> }
MaxSizes == {60, 100}
ProjectNames == {"", "P"}
\* str(datetime.now()) has 26 characters, 19 when the microsecond is 0
TimestampLens == {19, 26}
Texts == {Rep("x", 0), Rep("x", 40)}
Blocks ==
    { Rep("x", 30) \o <<"\n">> \o Rep("x", 5),
      Rep("x", 50) \o <<"\n">> \o Rep("x", 50) \o <<"\n">> }

OutState == [of |-> of, disk |-> disk, hist |-> hist]

OutIdle == UNCHANGED <<args, env, stats, temp, todo, err, call>>

OutInit ==
    /\ pc = "new"
    /\ of = NoObject
    /\ disk = <<>>
    /\ hist = NoHist
    /\ steps = 0
    /\ args = NoArgs /\ env = NoEnv /\ stats = NoStats /\ temp = NoTemp
    /\ todo = <<>> /\ err = "" /\ call = NoCall

OutNew ==
    /\ pc = "new"
    /\ \E output_path \in OutputPaths, max_size \in MaxSizes,
          project_name \in ProjectNames, ts \in TimestampLens :
          LET st == OutputFile_init(output_path, max_size, project_name, ts)
          IN  of' = st.of /\ disk' = st.disk /\ hist' = st.hist
    /\ pc' = "open"
    /\ UNCHANGED steps
    /\ OutIdle

OutWriteLine ==
    /\ pc = "open"
    /\ steps < MaxWrites
    /\ \E text \in Texts, ts \in TimestampLens :
          LET st == write_line(OutState, Line("line", Len(text) + 1, NoPath), ts)
          IN  of' = st.of /\ disk' = st.disk /\ hist' = st.hist
    /\ steps' = steps + 1
    /\ UNCHANGED pc
    /\ OutIdle

OutWriteBlock ==
    /\ pc = "open"
    /\ steps < MaxWrites
    /\ \E block \in Blocks, ts \in TimestampLens :
          LET st == write_block(OutState, block, NoPath, ts)
          IN  of' = st.of /\ disk' = st.disk /\ hist' = st.hist
    /\ steps' = steps + 1
    /\ UNCHANGED pc
    /\ OutIdle

OutNext == OutNew \/ OutWriteLine \/ OutWriteBlock

SpecOut == OutInit /\ [][OutNext]_vars

\* the parts that were rotated away from
Completed == DOMAIN disk \ {of.current_path}

HeaderSize(content) == SumLen(SubSeq(content, 1, 3))

SizeBeforeLast(content) == SumLen(content) - content[Len(content)].n

Max(a, b) == IF a >= b THEN a ELSE b

\* C1 as stated: just before the line that triggered its rotation was
\* appended, a completed part's size, header included, was not above the
\* threshold, so the part exceeds the threshold by at most that line.
C1_Original ==
    pc = "open" =>
        \A p \in Completed : SizeBeforeLast(disk[p]) <= of.max_size

\* C1 amended: a completed part ends with a written line, is above the
\* threshold, and before that line was appended its size was not above the
\* larger of the threshold and the part's own header.
C1_PartOverrunBounded ==
    pc = "open" =>
        \A p \in Completed :
            /\ Len(disk[p]) > 3
            /\ getsize(disk, p) > of.max_size
            /\ SizeBeforeLast(disk[p]) <= Max(of.max_size, HeaderSize(disk[p]))

C1_Witness ==
    /\ pc = "open"
    /\ \E p \in Completed :
          /\ HeaderSize(disk[p]) <= of.max_size
          /\ Len(disk[p]) > 4
    /\ \E p \in Completed : HeaderSize(disk[p]) > of.max_size

\* the path the documentation gives part n
ExpectedPartPath(o, n) ==
    IF n = 1 THEN o.base_path
    ELSE join(dirname(o.base_path),
              stem(basename(o.base_path)) \o <<"_", "p", "a", "r", "t">> \o Str(n)
                \o suffix(basename(o.base_path)))

\* C7: the part counter is 1 plus the number of rotations, the parts on disk
\* are exactly parts 1..part under their documented paths, the active path
\* is that of the current part, and a part that was rotated away from keeps
\* the size it had then (only the active part is appended to).
C7_PartNumbering ==
    pc = "open" =>
        /\ of.part = 1 + hist.rotations
        /\ Len(hist.closed) = of.part - 1
        /\ of.current_path = ExpectedPartPath(of, of.part)
        /\ DOMAIN disk = {ExpectedPartPath(of, k) : k \in 1..of.part}
        /\ \A k \in 1..Len(hist.closed) :
              getsize(disk, ExpectedPartPath(of, k)) = hist.closed[k]

C7_Witness ==
    /\ pc = "open"
    /\ of.part >= 3
    /\ Len(disk[of.current_path]) > 3

----------------------------------------------------------------------------
(* The matcher on its own: one call on any pattern and path                *)

SeqsUpTo(S, n) == UNION {[1..k -> S] : k \in 0..n}

PatternChars == {"a", ".", "*", "|"}
PathChars == {"a", ".", "|", "/"}

PatternPool == { <<"*", ".", "p", "y">>, <<"s", "r", "c", "/", "*">>, <<"*", ".", "d", "l", "l">>, <<"a", ".", "p", "y">> }
PathPool ==
    { <<"a", ".", "p", "y">>, <<"s", "r", "c", "/", "a", ".", "p", "y">>, <<"s", "r", "c", "/", "b", ".", "j", "s">>,
      <<"b", "i", "n", "/", "a", ".", "p", "y">>, <<"b", ".", "d", "l", "l">>, <<"s", "r", "c">> }

MatchIdle == UNCHANGED <<env, of, disk, stats, temp, todo, err, hist, steps>>

MatchRest ==
    /\ env = NoEnv /\ of = NoObject /\ disk = <<>> /\ stats = NoStats
    /\ temp = NoTemp /\ todo = <<>> /\ err = "" /\ hist = NoHist /\ steps = 0

GlobInit ==
    /\ pc = "call"
    /\ args = NoArgs
    /\ \E path \in SeqsUpTo(PathChars, MaxPathLen) \ {<<>>},
          pattern \in SeqsUpTo(PatternChars, MaxPatLen) :
          call = [op |-> "glob_match", path |-> path, pattern |-> pattern,
                  result |-> FALSE]
    /\ MatchRest

GlobCall ==
    /\ pc = "call"
    /\ call.op = "glob_match"
    /\ call' = [call EXCEPT !.result = glob_match(call.path, call.pattern)]
    /\ pc' = "returned"
    /\ UNCHANGED args
    /\ MatchIdle

SpecGlob == GlobInit /\ [][GlobCall]_vars

IgnoreInit ==
    /\ pc = "call"
    /\ \E include_patterns \in SeqsUpTo(PatternPool, MaxPatterns),
          exclude_patterns \in SeqsUpTo(PatternPool, MaxPatterns) :
          args = [include_patterns |-> include_patterns,
                  exclude_patterns |-> exclude_patterns]
    /\ \E rel_path \in PathPool :
          call = [op |-> "should_ignore", path |-> rel_path, pattern |-> <<>>,
                  result |-> FALSE]
    /\ MatchRest

IgnoreCall ==
    /\ pc = "call"
    /\ call.op = "should_ignore"
    /\ call' = [call EXCEPT
                   !.result = should_ignore(include_of(args), exclude_of(args),
                                            call.path)]
    /\ pc' = "returned"
    /\ UNCHANGED args
    /\ MatchIdle

SpecIgnore == IgnoreInit /\ [][IgnoreCall]_vars

Matches(patterns, path) == {i \in 1..Len(patterns) : glob_match(path, patterns[i])}

\* C4: _should_ignore returns true exactly when the include list is not
\* empty and none of its patterns matches the path, or some exclude pattern
\* matches it; so a path an exclude pattern matches is ignored even when an
\* include pattern matches it too.
C4_ExcludeDominates ==
    pc = "returned" /\ call.op = "should_ignore" =>
        LET inc == include_of(args)
            exc == exclude_of(args)
        IN  /\ call.result =
                 (\/ (inc # <<>> /\ Matches(inc, call.path) = {})
                  \/ Matches(exc, call.path) # {})
            /\ (Matches(exc, call.path) # {} => call.result = TRUE)

C4_Witness ==
    /\ pc = "returned"
    /\ call.op = "should_ignore"
    /\ Matches(include_of(args), call.path) # {}
    /\ Matches(exclude_of(args), call.path) # {}
    /\ call.result = TRUE

\* what C9 says a pattern matches: the whole path, each "*" standing for a
\* possibly empty run and every other character for itself
RECURSIVE LiteralGlob(_, _)
LiteralGlob(pattern, path) ==
    IF pattern = <<>> THEN path = <<>>
    ELSE IF Head(pattern) = "*"
         THEN \E j \in 0..Len(path) :
                 LiteralGlob(Tail(pattern), SubSeq(path, j + 1, Len(path)))
    ELSE /\ path # <<>>
         /\ Head(path) = Head(pattern)
         /\ LiteralGlob(Tail(pattern), Tail(path))

\* C9: _glob_match(path, pattern) is true exactly when the whole path is the
\* pattern with each "*" replaced by some run of characters and every other
\* character of the pattern, regex metacharacters included, matched literally.
C9_GlobIsLiteral ==
    pc = "returned" /\ call.op = "glob_match" =>
        call.result = LiteralGlob(call.pattern, call.path)

----------------------------------------------------------------------------
(* A run of main(): construction, process(), the end                       *)

LocalDir == <<"p">>
MissingDir == <<"q">>
RepoUrl == <<"h", "t", "t", "p", "s", ":", "/", "/", "h", "/", "r">>
TempDir == <<"/", "t", "/", "r", "e", "p", "o", "_", "x">>
OutputArg == <<"o", "u", "t", ".", "m", "d">>

Sources == {LocalDir, MissingDir, RepoUrl}
MaxFileSizes == {10, DEFAULT_MAX_FILE_SIZE}
MaxOutputSizes == {150, DEFAULT_MAX_OUTPUT_SIZE}
IncludeArgs == {<<>>, <<<<"*", ".", "p", "y">>>>}
ExcludeArgs == {<<>>, <<<<"s", "r", "c", "/", "*">>>>}
Trees == {t \in SUBSET (1..Len(Universe)) : 1 <= Cardinality(t) /\ Cardinality(t) <= MaxFiles}
RunTimestampLens == {26}

RunInit ==
    /\ pc = "main"
    /\ \E source \in Sources, max_file_size \in MaxFileSizes,
          max_output_size \in MaxOutputSizes,
          include_patterns \in IncludeArgs, exclude_patterns \in ExcludeArgs :
          args = [ source |-> source, output |-> OutputArg, project_name |-> "",
                   max_file_size |-> max_file_size,
                   max_output_size |-> max_output_size,
                   include_patterns |-> include_patterns,
                   exclude_patterns |-> exclude_patterns ]
    /\ \E tree \in Trees, order \in {"forward", "reverse"}, ts \in RunTimestampLens :
          env = [tree |-> tree, order |-> order, ts |-> ts]
    /\ of = NoObject /\ disk = <<>> /\ hist = NoHist
    /\ stats = NoStats /\ temp = NoTemp /\ todo = <<>> /\ err = ""
    /\ call = NoCall /\ steps = 0

RunFixed == UNCHANGED <<args, env, call, steps>>

\* SourceCodeFlatener.__init__ when the source is missing: sys.exit(1)
InitMissingSource ==
    /\ pc = "main"
    /\ ~is_url(args.source)
    /\ args.source # LocalDir
    /\ pc' = "exited"
    /\ err' = "SystemExit"
    /\ UNCHANGED <<of, disk, hist, stats, temp, todo>>
    /\ RunFixed

\* __init__ with a URL whose clone fails: git exits non-zero
\* (CalledProcessError: the directory is removed, sys.exit(1)), or git
\* cannot be run at all (OSError, which _clone_repository does not catch)
InitCloneFails ==
    /\ pc = "main"
    /\ is_url(args.source)
    /\ \E raised \in {"CalledProcessError", "OSError"} :
          IF raised = "CalledProcessError"
          THEN temp' = [path |-> TempDir, exists |-> FALSE] /\ err' = "SystemExit"
          ELSE temp' = [path |-> TempDir, exists |-> TRUE] /\ err' = "OSError"
    /\ pc' = "exited"
    /\ UNCHANGED <<of, disk, hist, stats, todo>>
    /\ RunFixed

\* __init__ when the output file cannot be created (makedirs or open
\* raises): the exception leaves __init__, and main() with it
InitOutputFails ==
    /\ pc = "main"
    /\ is_url(args.source) \/ args.source = LocalDir
    /\ temp' = IF is_url(args.source)
               THEN [path |-> TempDir, exists |-> TRUE] ELSE temp
    /\ pc' = "exited"
    /\ err' = "OSError"
    /\ UNCHANGED <<of, disk, hist, stats, todo>>
    /\ RunFixed

\* __init__ to its end: the clone if any, the OutputFile, the three lines
InitCompletes ==
    /\ pc = "main"
    /\ is_url(args.source) \/ args.source = LocalDir
    /\ LET t == IF is_url(args.source)
                THEN [path |-> TempDir, exists |-> TRUE] ELSE temp
           st0 == OutputFile_init(args.output, args.max_output_size,
                                  args.project_name, env.ts)
           st == write_lines(st0,
                   << Line("source", Len("Source: ") + Len(args.source) + 1, NoPath),
                      Line("project_dir",
                           Len("Project Directory: ") + Len(project_dir(args, t)) + 1,
                           NoPath),
                      Line("blank", 1, NoPath) >>, env.ts)
       IN  /\ temp' = t
           /\ of' = st.of /\ disk' = st.disk /\ hist' = st.hist
    /\ pc' = "constructed"
    /\ UNCHANGED <<stats, todo, err>>
    /\ RunFixed

\* process() up to the walk: the structure section and the content heading
StructurePass ==
    /\ pc = "constructed"
    /\ LET lines == process_directory(args, env, <<>>, 0)
           st == write_lines([of |-> of, disk |-> disk, hist |-> hist],
                   << Line("blank", 1, NoPath),
                      Line("section", Len("# Directory Structure") + 1, NoPath) >>
                   \o lines
                   \o << Line("blank", 1, NoPath),
                         Line("section", Len("# Files Content") + 1, NoPath) >>, env.ts)
       IN  /\ of' = st.of /\ disk' = st.disk /\ hist' = st.hist
           /\ stats' = [stats EXCEPT
                           !.dir_count = Cardinality({i \in 1..Len(lines) :
                                                        lines[i].t = "DIR"})]
    /\ todo' = walk(env, <<>>)
    /\ pc' = "content"
    /\ UNCHANGED <<temp, err>>
    /\ RunFixed

\* one turn of the loop over the walked files; an exception ends the loop
ContentFile ==
    /\ pc = "content"
    /\ todo # <<>>
    /\ LET r == process_walked_file(args,
                   [out |-> [of |-> of, disk |-> disk, hist |-> hist],
                    stats |-> stats, err |-> ""], Head(todo), env.ts)
       IN  /\ of' = r.out.of /\ disk' = r.out.disk /\ hist' = r.out.hist
           /\ stats' = r.stats
           /\ err' = r.err
           /\ pc' = IF r.err = "" THEN "content" ELSE "finally"
    /\ todo' = Tail(todo)
    /\ UNCHANGED temp
    /\ RunFixed

\* after the loop: the summary, prepended to the file at get_path()
Summary ==
    /\ pc = "content"
    /\ todo = <<>>
    /\ disk' = prepend_summary(of, disk, generate_summary(stats))
    /\ pc' = "finally"
    /\ UNCHANGED <<of, hist, stats, temp, todo, err>>
    /\ RunFixed

\* the finally clause of process()
Finally ==
    /\ pc = "finally"
    /\ temp' = IF temp.path # <<>> /\ temp.exists
               THEN [temp EXCEPT !.exists = FALSE] ELSE temp
    /\ pc' = IF err = "" THEN "done" ELSE "failed"
    /\ UNCHANGED <<of, disk, hist, stats, todo, err>>
    /\ RunFixed

RunNext ==
    \/ InitMissingSource \/ InitCloneFails \/ InitOutputFails \/ InitCompletes
    \/ StructurePass \/ ContentFile \/ Summary \/ Finally

SpecRun == RunInit /\ [][RunNext]_vars

----------------------------------------------------------------------------
(* What a finished run left in the output, and what the tree held          *)

\* the places <<part, index>> of the lines with a tag, over all parts
LinesTagged(tag) ==
    UNION { {<<q, i>> : i \in {j \in 1..Len(disk[q]) : disk[q][j].t = tag}} :
            q \in DOMAIN disk }

About(tag) == {disk[x[1]][x[2]].p : x \in LinesTagged(tag)}

\* the files with a "## <relative path>" section, and those listed [FILE]
Sections == About("heading")
Listed == About("FILE")
\* the files whose content was written
Emitted == About("content")

SectionCount(path) ==
    Cardinality({x \in LinesTagged("heading") : disk[x[1]][x[2]].p = path})

TreePaths == {Universe[i].path : i \in env.tree}

SizeOf(path) == Universe[FileAt(path)].size

StatusOf(path) == Universe[FileAt(path)].status

RECURSIVE SumSizes(_)
SumSizes(paths) ==
    IF paths = {} THEN 0
    ELSE LET q == CHOOSE x \in paths : TRUE
         IN  SizeOf(q) + SumSizes(paths \ {q})

\* the file of the tree at a relative path is the file the output is written to
IsOutputFile(path) == join(project_dir(args, temp), path) = abspath(args.output)

Ignored(path) == should_ignore(include_of(args), exclude_of(args), path)

\* C2: after a complete run the summary block is at the top of part 1 (the
\* base output path), and every later part begins with its continued header.
C2_SummaryOnFirstPart ==
    pc = "done" =>
        /\ disk[of.base_path][1].t = "summary"
        /\ \A q \in DOMAIN disk \ {of.base_path} : disk[q][1].t = "continued"

\* C3: when a temporary clone directory was created, it no longer exists
\* when the run has ended, however it ended.
C3_TempDirRemoved ==
    pc \in {"done", "failed", "exited"} => ~(temp.path # <<>> /\ temp.exists)

\* C5: the content pass gives a section to a file exactly when the file has
\* a supported extension, is not ignored, has a name that does not begin
\* with a dot and is not the output file itself, and to each such file one
\* section, whatever the listing order.
C5_SectionsAreTheSelectedFiles ==
    pc = "done" =>
        /\ Sections = {q \in TreePaths :
                          /\ supported(q)
                          /\ ~Ignored(q)
                          /\ ~startswith_dot(basename(q))
                          /\ ~IsOutputFile(q)}
        /\ \A q \in Sections : SectionCount(q) = 1

\* the files the loop of the content pass hands to _process_file_contents
Selected ==
    {q \in TreePaths :
        /\ supported(q)
        /\ ~Ignored(q)
        /\ ~startswith_dot(basename(q))
        /\ basename(q) # basename(args.output)}

\* C6: no failure while handling a selected file ends the run: the file
\* gets its section with an error placeholder, no exception leaves the
\* content pass, and every other selected file is still processed.
C6_FileErrorsContained ==
    pc \in {"done", "failed"} =>
        /\ err = ""
        /\ \A q \in Selected :
              /\ q \in Sections
              /\ StatusOf(q) # "ok" => q \in About("error") \cup About("too_large")

\* C8: at the end total_bytes is the sum of the sizes of the files whose
\* content was written, file_count is their number, the summary's token
\* count is total_bytes integer-divided by 4, and a file with a section has
\* the too-large placeholder exactly when its size is above max_file_size;
\* a file with either placeholder has no content written.
C8_TotalsMatchEmittedFiles ==
    pc = "done" =>
        /\ stats.total_bytes = SumSizes(Emitted)
        /\ stats.file_count = Cardinality(Emitted)
        /\ About("bytes") = {Str(SumSizes(Emitted))}
        /\ About("tokens") = {Str(SumSizes(Emitted) \div 4)}
        /\ \A q \in Sections :
              /\ (q \in About("too_large")) = (SizeOf(q) > args.max_file_size)
              /\ q \in About("too_large") \cup About("error") => q \notin Emitted
              /\ q \in Emitted \cup About("too_large") \cup About("error")

C8_Witness ==
    /\ pc = "done"
    /\ Emitted # {}
    /\ About("too_large") # {}
    /\ stats.total_bytes % 4 # 0
    /\ stats.total_bytes > 4

\* C10: a file is listed [FILE] in the structure section exactly when the
\* content pass gives it a section.
C10_PassesAgree ==
    pc = "done" => Listed = Sections

====
